---- MODULE Spec2Model ----
(***************************************************************************)
(* GrayNinja (script.js): the Gray-code codec, the Basics tab state        *)
(* machine (n, val, wrap), the three interval-timer animation channels,    *)
(* the encoder disc (angle/sector mapper, sector stepping, display) and    *)
(* the Convert tab's convert.                                              *)
(*                                                                         *)
(* Numbers.  A JavaScript number that is the operand of a bitwise          *)
(* operator is coerced to a 32-bit integer.  Int32 values are written as   *)
(* ordinary integers in -2^31 .. 2^31-1.  A non-negative number that may   *)
(* exceed 2^31-1 (an argument of binToGray or grayToBin) is written as a   *)
(* record [hi, lo] with value hi * 2^16 + lo, 0 <= lo < 2^16.              *)
(*                                                                         *)
(* Angles.  Angles are exact multiples of 1/12800 degree, the coarsest     *)
(* unit in which a sector step 360 / 2^12, a spin step speed / 25 and a    *)
(* disc-rotation step speed / 10 are all whole.                            *)
(*                                                                         *)
(* Strings are sequences of one-character strings.                         *)
(***************************************************************************)
EXTENDS Integers, Sequences, FiniteSets, TLC

VARIABLES
  \* ---- codec calls (pure functions applied to drawn inputs)
  fn,       \* the function being applied ("none" before any call)
  arg,      \* its inputs: [n: bit width, b: number, a: angle], or for
            \* convert [input, toGray, orig]
  ret,      \* its return value
  pc,       \* "ready" | "loop" (inside grayToBin's for loop) | "done"
  gtb_g,    \* grayToBin: loop variable g
  gtb_b,    \* grayToBin: accumulator b
  \* ---- Basics tab
  n,        \* script.js:111
  val,      \* script.js:112
  wrap,     \* $('wrap').checked
  bitsField,\* $('bits').value as shown after the change handler
  renderLog,\* the <<n, val>> pairs renderBasics read during the last handler
  \* ---- animation channels
  autoplay,          \* script.js:113  timer handle or NULL
  autoplaySpeed,     \* script.js:114
  spinTimer,         \* script.js:347
  discRotateTimer,   \* script.js:348
  discRotationAngle, \* script.js:349
  currentAngle,      \* script.js:479
  spinSpeed,         \* $('spinSpeed').value
  discRotateSpeed,   \* $('discRotateSpeed').value
  timers,            \* live interval sources: records [id, chan, period]
  nextTimerId,       \* the id the next setInterval returns
  \* ---- encoder disc
  discBits,          \* $('discBits').value | 0, as every reader takes it
  sectorOut,         \* the sector on display, $('sectorOut').textContent
  \* ---- the event handled last
  event     \* [name, ...] of the handler that produced this state

codecVars == <<fn, arg, ret, pc, gtb_g, gtb_b>>
basicsVars == <<n, val, wrap, bitsField, renderLog>>
animVars == <<autoplay, autoplaySpeed, spinTimer, discRotateTimer,
              discRotationAngle, currentAngle, spinSpeed, discRotateSpeed,
              timers, nextTimerId, discBits, sectorOut>>
vars == <<fn, arg, ret, pc, gtb_g, gtb_b, n, val, wrap, bitsField, renderLog,
          autoplay, autoplaySpeed, spinTimer, discRotateTimer,
          discRotationAngle, currentAngle, spinSpeed, discRotateSpeed,
          timers, nextTimerId, discBits, sectorOut, event>>

-----------------------------------------------------------------------------
(* 32-bit integer arithmetic of the host                                   *)

INT32_MIN == -2147483647 - 1
INT32_MAX == -(INT32_MIN + 1)

\* a number given as an ordinary integer, in the wide form
Num(x) == [hi |-> x \div 65536, lo |-> x % 65536]

\* ToInt32 of a wide number: the low 32 bits read as two's complement
ToInt32(w) == (((w.hi + 32768) % 65536) - 32768) * 65536 + w.lo

\* w >>> 1: the low 32 bits read as unsigned, shifted right by one
UShr1(w) ==
  LET h == w.hi % 65536
  IN  (h \div 2) * 65536 + (h % 2) * 32768 + (w.lo \div 2)

\* x >> 1 on an Int32: sign-propagating shift
SShr1(x) == x \div 2

\* ToInt32(x - 1) for an Int32 x
Dec32(x) == IF x = INT32_MIN THEN INT32_MAX ELSE x - 1

\* a ^ b on Int32 operands (two's complement)
RECURSIVE Xor(_, _)
Xor(a, b) ==
  IF a = 0 THEN b
  ELSE IF b = 0 THEN a
  ELSE IF a = -1 THEN (-1) - b
  ELSE IF b = -1 THEN (-1) - a
  ELSE 2 * Xor(a \div 2, b \div 2) + (((a % 2) + (b % 2)) % 2)

\* a & b on Int32 operands (two's complement)
RECURSIVE And(_, _)
And(a, b) ==
  IF a = 0 \/ b = 0 THEN 0
  ELSE IF a = -1 THEN b
  ELSE IF b = -1 THEN a
  ELSE 2 * And(a \div 2, b \div 2) + ((a % 2) * (b % 2))

\* 1 << k: the shift count is taken modulo 32
Shl1(k) == IF k % 32 = 31 THEN INT32_MIN ELSE 2 ^ (k % 32)

\* a % m of the host: the remainder has the sign of the dividend
JsMod(a, m) ==
  LET am == IF m < 0 THEN -m ELSE m
  IN  IF a >= 0 THEN a % am ELSE -((-a) % am)

Max(a, b) == IF a >= b THEN a ELSE b
Min(a, b) == IF a <= b THEN a ELSE b

-----------------------------------------------------------------------------
(* Utility functions and the codec, script.js:27-71                        *)

\* the binary digits of x >= 0, most significant first; <<>> for 0
RECURSIVE Digits(_)
Digits(x) == IF x = 0 THEN <<>> ELSE Digits(x \div 2) \o <<IF x % 2 = 1 THEN "1" ELSE "0">>

\* the binary digits of -x for x <= 0
RECURSIVE NegDigits(_)
NegDigits(x) ==
  IF x = 0 THEN <<>>
  ELSE NegDigits((x + (x % 2)) \div 2) \o <<IF x % 2 = 1 THEN "1" ELSE "0">>

\* x.toString(2)
ToString2(x) ==
  IF x = 0 THEN <<"0">>
  ELSE IF x > 0 THEN Digits(x)
  ELSE <<"-">> \o NegDigits(x)

\* s.padStart(w, '0')
PadStart(s, w) ==
  IF Len(s) >= w THEN s ELSE [i \in 1..(w - Len(s)) |-> "0"] \o s

\* pad with padEnd in place of padStart
pad_end(x, w) ==
  LET t == ToString2(x)
  IN  IF Len(t) >= w THEN t ELSE t \o [i \in 1..(w - Len(t)) |-> "0"]

pad(x, w) == PadStart(ToString2(x), w)

\* hdist with the loop body  x >>= 1  in place of  x &= x - 1
RECURSIVE hdistLoopShift(_, _)
hdistLoopShift(x, c) == IF x = 0 \/ x = -1 THEN c ELSE hdistLoopShift(SShr1(x), c + 1)

hdist_shift(a, b) == hdistLoopShift(Xor(a, b), 0)

RECURSIVE hdistLoop(_, _)
hdistLoop(x, c) == IF x = 0 THEN c ELSE hdistLoop(And(x, Dec32(x)), c + 1)

hdist(a, b) == hdistLoop(Xor(a, b), 0)

binToGray(b) == Xor(ToInt32(b), UShr1(b))

\* grayToBin, script.js:64-71, is the loop of the actions grayToBinStep and
\* grayToBinReturn below: its for loop need not terminate, so it is stepped.

\* one row of the comparison table: the body of renderBasics' loop for index i
renderBasicsRow(i, w) ==
  LET max  == Shl1(w)
      g    == binToGray(Num(i))
      prev == JsMod(i - 1 + max, max)
      dh   == hdist(binToGray(Num(prev)), g)
  IN  [dec |-> i, bin |-> pad(i, w), gray |-> pad(g, w), hd |-> dh]

\* the header of renderBasics: decOut, binOut, grayOut and the two distances
\* to the next value
renderBasicsHead(v, w) ==
  LET next == And(v + 1, Shl1(w) - 1)
  IN  [dec |-> v, bin |-> pad(v, w), gray |-> pad(binToGray(Num(v)), w),
       grayHamming |-> hdist(binToGray(Num(v)), binToGray(Num(next))),
       binHamming |-> hdist(v, next)]

\* the recursive reflected construction: G(k) = [0+G(k-1)] + [1+reverse(G(k-1))]
RECURSIVE RBC(_)
RBC(k) ==
  IF k = 0 THEN << <<>> >>
  ELSE LET p == RBC(k - 1)
       IN  [i \in 1..Len(p) |-> <<"0">> \o p[i]]
           \o [i \in 1..Len(p) |-> <<"1">> \o p[Len(p) + 1 - i]]

-----------------------------------------------------------------------------
(* Angle/sector mapper, script.js:358-363                                  *)

UnitsPerDegree == 512 * 25
DEG360 == 360 * UnitsPerDegree

\* sectorFromAngle without the final  % sectors
sectorFromAngle_nomod(angle, bits) ==
  LET sectors == Shl1(bits)
      step    == DEG360 \div sectors
  IN  angle \div step

sectorFromAngle(angle, bits) ==
  LET sectors == Shl1(bits)
      step    == DEG360 \div sectors
  IN  JsMod(angle \div step, sectors)

\* A value handed to setVal or read from an input field:
\*   kind  "number" | "string" | "other"  (typeof)
\*   cls   "int" | "nan" | "inf" | "huge"  (the number it is or parses to;
\*         "huge" is finite with magnitude above Number.MAX_SAFE_INTEGER)
\*   v     the integer when cls = "int"
IntNum(x) == [kind |-> "number", cls |-> "int", v |-> x]
NaN == [kind |-> "number", cls |-> "nan", v |-> 0]

-----------------------------------------------------------------------------
(* Bounds of the checked instances                                         *)

\* angles are sampled at multiples of 22.5 degrees, and one unit either side,
\* from -MaxAngleSteps to +MaxAngleSteps such multiples
MaxAngleSteps == 40
\* numbers above 2^31 - 1 are sampled as hi * 2^16 + lo
WideHi == {32767, 32768, 32769, 49152, 65535}
WideLo == {0, 1, 32768, 65535}
\* the recursive construction is compared for widths up to MaxRBC
MaxRBC == 6

BITS_MIN == 1
BITS_MAX == 12
NULL == 0

\* the value the discBits handler puts back into the field (script.js:511)
DISC_BITS_DEFAULT == 4

\* the bit width every reader of the field works with (script.js:482, 526, 535)
DiscBitsAt(field) == Max(BITS_MIN, Min(BITS_MAX, field))

\* renderDiscAll(): the sector it computes at the angle and writes into
\* sectorOut (script.js:481-487)
renderDiscAll(angle, field) == sectorFromAngle(angle, DiscBitsAt(field))

-----------------------------------------------------------------------------
(* The state after construction, script.js:111-114, 347-349, 479, 928-934  *)

InitBasics(w) ==
  /\ n = 4
  /\ val = 0
  /\ wrap = w
  /\ bitsField = 4
  /\ renderLog = << [n |-> 4, val |-> 0] >>

InitAnim(ss, ds) ==
  /\ autoplay = NULL
  /\ autoplaySpeed = 600
  /\ spinTimer = NULL
  /\ discRotateTimer = NULL
  /\ discRotationAngle = 0
  /\ currentAngle = 0
  /\ spinSpeed = ss
  /\ discRotateSpeed = ds
  /\ timers = {}
  /\ nextTimerId = 1
  /\ discBits = DISC_BITS_DEFAULT
  /\ sectorOut = renderDiscAll(0, DISC_BITS_DEFAULT)

InitCodecIdle ==
  /\ fn = "none"
  /\ arg = [n |-> 4, b |-> Num(0), a |-> 0]
  /\ ret = 0
  /\ pc = "ready"
  /\ gtb_g = Num(0)
  /\ gtb_b = 0

-----------------------------------------------------------------------------
(* Codec calls: each pure function applied to inputs drawn by InitCodec    *)

ValueInputs ==
  UNION { { [n |-> k, b |-> Num(v), a |-> 0] : v \in 0..(2 ^ k - 1) }
          : k \in BITS_MIN..BITS_MAX }

WideInputs == { [n |-> 32, b |-> [hi |-> h, lo |-> l], a |-> 0] : h \in WideHi, l \in WideLo }

AngleSamples ==
  { s * (DEG360 \div 16) + d : s \in (-MaxAngleSteps)..MaxAngleSteps, d \in {-1, 0, 1} }

AngleInputs ==
  { [n |-> k, b |-> Num(0), a |-> x] : k \in BITS_MIN..BITS_MAX, x \in AngleSamples }

InitCodec ==
  /\ fn = "none"
  /\ arg \in ValueInputs \cup WideInputs \cup AngleInputs
  /\ ret = 0
  /\ pc = "ready"
  /\ gtb_g = Num(0)
  /\ gtb_b = 0
  /\ InitBasics(FALSE)
  /\ InitAnim(0, 0)
  /\ event = [name |-> "init", input |-> IntNum(0)]

\* binToGray(arg.b)
CallBinToGray ==
  /\ pc = "ready"
  /\ fn' = "binToGray"
  /\ ret' = binToGray(arg.b)
  /\ pc' = "done"
  /\ UNCHANGED <<arg, gtb_g, gtb_b, basicsVars, animVars, event>>

\* grayToBin(arg.b): entry, script.js:64-65
CallGrayToBin ==
  /\ pc = "ready"
  /\ fn' = "grayToBin"
  /\ gtb_g' = arg.b
  /\ gtb_b' = 0
  /\ pc' = "loop"
  /\ UNCHANGED <<arg, ret, basicsVars, animVars, event>>

\* grayToBin(binToGray(arg.b)): entry with the value binToGray returned
CallRoundTrip ==
  /\ pc = "done"
  /\ fn = "binToGray"
  /\ fn' = "roundTrip"
  /\ gtb_g' = Num(ret)
  /\ gtb_b' = 0
  /\ pc' = "loop"
  /\ UNCHANGED <<arg, ret, basicsVars, animVars, event>>

\* the loop body with  b = g  in place of  b ^= g
grayToBinStep_assign ==
  /\ pc = "loop"
  /\ gtb_g # Num(0)
  /\ gtb_b' = ToInt32(gtb_g)
  /\ gtb_g' = Num(SShr1(ToInt32(gtb_g)))
  /\ UNCHANGED <<fn, arg, ret, pc, basicsVars, animVars, event>>

\* one iteration of  for (; g; g >>= 1) b ^= g;  script.js:67-69
grayToBinStep ==
  /\ pc = "loop"
  /\ gtb_g # Num(0)
  /\ gtb_b' = Xor(gtb_b, ToInt32(gtb_g))
  /\ gtb_g' = Num(SShr1(ToInt32(gtb_g)))
  /\ UNCHANGED <<fn, arg, ret, pc, basicsVars, animVars, event>>

\* loop exit and  return b;  script.js:67, 70
grayToBinReturn ==
  /\ pc = "loop"
  /\ gtb_g = Num(0)
  /\ ret' = gtb_b
  /\ pc' = "done"
  /\ UNCHANGED <<fn, arg, gtb_g, gtb_b, basicsVars, animVars, event>>

\* the table row renderBasics builds for index arg.b at width arg.n
CallRenderRow ==
  /\ pc = "ready"
  /\ arg.n \in BITS_MIN..BITS_MAX
  /\ ToInt32(arg.b) < Shl1(arg.n)
  /\ fn' = "renderBasicsRow"
  /\ ret' = renderBasicsRow(ToInt32(arg.b), arg.n)
  /\ pc' = "done"
  /\ UNCHANGED <<arg, gtb_g, gtb_b, basicsVars, animVars, event>>

\* the header renderBasics shows for val = arg.b at width arg.n
CallRenderHead ==
  /\ pc = "ready"
  /\ arg.n \in BITS_MIN..BITS_MAX
  /\ ToInt32(arg.b) < Shl1(arg.n)
  /\ fn' = "renderBasicsHead"
  /\ ret' = renderBasicsHead(ToInt32(arg.b), arg.n)
  /\ pc' = "done"
  /\ UNCHANGED <<arg, gtb_g, gtb_b, basicsVars, animVars, event>>

\* the reflected construction of width arg.n
CallRBC ==
  /\ pc = "ready"
  /\ arg.n \in 1..MaxRBC
  /\ fn' = "RBC"
  /\ ret' = RBC(arg.n)
  /\ pc' = "done"
  /\ UNCHANGED <<arg, gtb_g, gtb_b, basicsVars, animVars, event>>

\* sectorFromAngle(arg.a, arg.n), with the width in the range renderDiscAll
\* clamps it to (script.js:482)
CallSectorFromAngle ==
  /\ pc = "ready"
  /\ arg.n \in BITS_MIN..BITS_MAX
  /\ fn' = "sectorFromAngle"
  /\ ret' = sectorFromAngle(arg.a, arg.n)
  /\ pc' = "done"
  /\ UNCHANGED <<arg, gtb_g, gtb_b, basicsVars, animVars, event>>

\* a second call one full turn later: sectorFromAngle(arg.a + 360, arg.n)
CallSectorNextTurn ==
  /\ pc = "done"
  /\ fn = "sectorFromAngle"
  /\ fn' = "sectorFromAngle+360"
  /\ ret' = [first |-> ret, second |-> sectorFromAngle(arg.a + DEG360, arg.n)]
  /\ UNCHANGED <<arg, pc, gtb_g, gtb_b, basicsVars, animVars, event>>

NextCodec ==
  \/ CallBinToGray
  \/ CallGrayToBin
  \/ CallRoundTrip
  \/ grayToBinStep
  \/ grayToBinReturn
  \/ CallRenderRow
  \/ CallRenderHead
  \/ CallRBC
  \/ CallSectorFromAngle
  \/ CallSectorNextTurn

SpecCodec == InitCodec /\ [][NextCodec]_vars

-----------------------------------------------------------------------------
(* Basics tab, script.js:120-175 and 266-310                               *)

\* setVal with the wrap branch  numVal % max  in place of
\* ((numVal % (max + 1)) + (max + 1)) % (max + 1)
setVal_offByOne(x, w, wr, cur) ==
  IF x.kind \notin {"number", "string"} THEN [rendered |-> FALSE, val |-> cur]
  ELSE IF x.cls \in {"nan", "inf"} THEN [rendered |-> FALSE, val |-> cur]
  ELSE IF x.cls = "huge" THEN [rendered |-> FALSE, val |-> cur]
  ELSE
    LET max == Shl1(w) - 1
    IN  [rendered |-> TRUE,
         val |-> IF wr THEN JsMod(x.v, max) ELSE Max(0, Min(max, x.v))]

\* setVal(v) at bit width w, wrap flag wr and current value cur: the value it
\* leaves in val, and whether it went on to renderBasics (script.js:135-175)
setVal(x, w, wr, cur) ==
  IF x.kind \notin {"number", "string"} THEN [rendered |-> FALSE, val |-> cur]
  ELSE IF x.cls \in {"nan", "inf"} THEN [rendered |-> FALSE, val |-> cur]
  ELSE IF x.cls = "huge" THEN [rendered |-> FALSE, val |-> cur]
  ELSE
    LET max == Shl1(w) - 1
    IN  [rendered |-> TRUE,
         val |-> IF wr THEN JsMod(JsMod(x.v, max + 1) + (max + 1), max + 1)
                       ELSE Max(0, Min(max, x.v))]

\* syncBasicsBounds without the adjustment of an out-of-range val
syncBasicsBounds_noAdjust(w, wr, cur) == [rendered |-> FALSE, val |-> cur]

\* syncBasicsBounds at the new width w (script.js:120-128)
syncBasicsBounds(w, wr, cur) ==
  LET max == Shl1(w) - 1
  IN  IF cur > max THEN setVal(IntNum(max), w, wr, cur)
      ELSE [rendered |-> FALSE, val |-> cur]

\* what renderBasics reads: called once per renderBasics() of a handler
Rendered(w, v) == [n |-> w, val |-> v]

\* the integers tried as  $('val').value | 0  at width w
MaxValOver == 2
ValSamples(w) ==
  LET m == 2 ^ w
  IN  { -m - 1, -1, 0, 1, m - 1 } \cup { m + k : k \in 0..(MaxValOver - 1) } \cup { 2 * m + 1 }

\* the table rows tried for a click at width w
RowSamples(w) == { 0, 2 ^ (w - 1), 2 ^ w - 1 }

\* the results of parseInt($('bits').value, 10) tried
MaxBitsOver == 2
BitsSamples ==
  { NaN } \cup { IntNum(k) : k \in (BITS_MIN - MaxBitsOver)..(BITS_MAX + MaxBitsOver) }

\* values handed to setVal that it does not take: neither a number nor a
\* string, a string parseInt turns into NaN, NaN, an infinite number, a
\* number beyond Number.MAX_SAFE_INTEGER
Other == [kind |-> "other", cls |-> "int", v |-> 0]
StrNaN == [kind |-> "string", cls |-> "nan", v |-> 0]
Inf == [kind |-> "number", cls |-> "inf", v |-> 0]
Huge == [kind |-> "number", cls |-> "huge", v |-> 0]
\* a string parseInt turns into the integer k
StrInt(k) == [kind |-> "string", cls |-> "int", v |-> k]

\* the values tried in a call of setVal at width w
SetValSamples(w) ==
  { Other, StrNaN, NaN, Inf, Huge, StrInt(2 ^ w - 1), IntNum(1) }

\* a call setVal(x) with any value (script.js:135-175)
SetValCall ==
  \E x \in SetValSamples(n) :
    LET r == setVal(x, n, wrap, val)
    IN  /\ val' = r.val
        /\ renderLog' = IF r.rendered THEN << Rendered(n, r.val) >> ELSE << >>
        /\ event' = [name |-> "setVal", input |-> x]
        /\ UNCHANGED <<n, wrap, bitsField, codecVars, animVars>>

\* 'input' on the slider or the number field (script.js:289-290)
ValInput ==
  \E x \in ValSamples(n) :
    LET r == setVal(IntNum(x), n, wrap, val)
    IN  /\ val' = r.val
        /\ renderLog' = IF r.rendered THEN << Rendered(n, r.val) >> ELSE << >>
        /\ event' = [name |-> "valInput", input |-> IntNum(x)]
        /\ UNCHANGED <<n, wrap, bitsField, codecVars, animVars>>

\* click on a table row (script.js:236-238)
RowClick ==
  \E i \in RowSamples(n) :
    LET r == setVal(IntNum(i), n, wrap, val)
    IN  /\ val' = r.val
        /\ renderLog' = IF r.rendered THEN << Rendered(n, r.val) >> ELSE << >>
        /\ event' = [name |-> "rowClick", input |-> IntNum(i)]
        /\ UNCHANGED <<n, wrap, bitsField, codecVars, animVars>>

\* the value the prev handler passes to setVal (script.js:293-300)
PrevArg(v, w, wr) ==
  LET max == Shl1(w)
  IN  IF wr THEN JsMod(v - 1 + max, max) ELSE v - 1

\* the value the next handler passes to setVal (script.js:303-310)
NextArg(v, w, wr) ==
  LET max == Shl1(w)
  IN  IF wr THEN JsMod(v + 1, max) ELSE v + 1

PrevClick ==
  LET r == setVal(IntNum(PrevArg(val, n, wrap)), n, wrap, val)
  IN  /\ val' = r.val
      /\ renderLog' = IF r.rendered THEN << Rendered(n, r.val) >> ELSE << >>
      /\ event' = [name |-> "prev", input |-> IntNum(val)]
      /\ UNCHANGED <<n, wrap, bitsField, codecVars, animVars>>

\* click on next; the autoplay interval callback is $('next').click(), this
\* same handler (script.js:257, 316)
NextClick ==
  LET r == setVal(IntNum(NextArg(val, n, wrap)), n, wrap, val)
  IN  /\ val' = r.val
      /\ renderLog' = IF r.rendered THEN << Rendered(n, r.val) >> ELSE << >>
      /\ event' = [name |-> "next", input |-> IntNum(val)]
      /\ UNCHANGED <<n, wrap, bitsField, codecVars, animVars>>

\* the user ticks or unticks the wrap checkbox; no listener is attached
WrapToggle ==
  /\ wrap' = ~wrap
  /\ renderLog' = << >>
  /\ event' = [name |-> "wrapToggle", input |-> IntNum(0)]
  /\ UNCHANGED <<n, val, bitsField, codecVars, animVars>>

\* the handler without its check of the parsed value
BitsChange_noCheck ==
  \E x \in BitsSamples :
    /\ event' = [name |-> "bits", input |-> x]
    /\ IF FALSE
       THEN /\ bitsField' = n
            /\ renderLog' = << >>
            /\ UNCHANGED <<n, val>>
       ELSE LET safeBits == Max(BITS_MIN, Min(BITS_MAX, x.v))
                r        == syncBasicsBounds(safeBits, wrap, val)
            IN  /\ bitsField' = safeBits
                /\ n' = safeBits
                /\ val' = r.val
                /\ renderLog' =
                     (IF r.rendered THEN << Rendered(safeBits, r.val) >> ELSE << >>)
                     \o << Rendered(safeBits, r.val) >>
    /\ UNCHANGED <<wrap, codecVars, animVars>>

\* 'change' on the bit-width field (script.js:266-286)
BitsChange ==
  \E x \in BitsSamples :
    /\ event' = [name |-> "bits", input |-> x]
    /\ IF x.cls \in {"nan", "inf"}
       THEN /\ bitsField' = n
            /\ renderLog' = << >>
            /\ UNCHANGED <<n, val>>
       ELSE LET safeBits == Max(BITS_MIN, Min(BITS_MAX, x.v))
                r        == syncBasicsBounds(safeBits, wrap, val)
            IN  /\ bitsField' = safeBits
                /\ n' = safeBits
                /\ val' = r.val
                /\ renderLog' =
                     (IF r.rendered THEN << Rendered(safeBits, r.val) >> ELSE << >>)
                     \o << Rendered(safeBits, r.val) >>
    /\ UNCHANGED <<wrap, codecVars, animVars>>

InitBasicsSpec ==
  /\ InitCodecIdle
  /\ \E w \in BOOLEAN : InitBasics(w)
  /\ InitAnim(0, 0)
  /\ event = [name |-> "init", input |-> IntNum(0)]

NextBasics ==
  \/ ValInput
  \/ RowClick
  \/ PrevClick
  \/ NextClick
  \/ WrapToggle
  \/ BitsChange
  \/ SetValCall

SpecBasics == InitBasicsSpec /\ [][NextBasics]_vars

-----------------------------------------------------------------------------
(* Animation channels, script.js:254-259, 313-321, 549-612, 937-941        *)

\* setInterval never returns an id above MaxTimerId in the checked instances
MaxTimerId == 3
\* the slider values tried: autoplay periods in ms, and speeds whose steps
\* (speed / 25 and speed / 10 degrees) are nothing and a half turn
AutoplaySpeeds == {300, 600}
SpinSpeeds == {0, 25 * 180}
DiscRotateSpeeds == {0, 10 * 180}
\* the fixed period of the two disc timers, in ms
FRAME_MS == 16

\* clearInterval(h): a null or stale handle removes nothing
clearInterval(ts, h) == { t \in ts : t.id # h }

\* setInterval(callback of channel c, period p), returning handle id
setInterval(ts, id, c, p) == ts \cup { [id |-> id, chan |-> c, period |-> p] }

\* 'change' on the auto checkbox, e.target.checked = checked (script.js:313-321)
AutoChange ==
  \E checked \in BOOLEAN :
    /\ event' = [name |-> "autoChange", input |-> IntNum(IF checked THEN 1 ELSE 0)]
    /\ IF checked
       THEN /\ nextTimerId <= MaxTimerId
            /\ timers' = setInterval(IF autoplay # NULL THEN clearInterval(timers, autoplay) ELSE timers,
                                     nextTimerId, "autoplay", autoplaySpeed)
            /\ autoplay' = nextTimerId
            /\ nextTimerId' = nextTimerId + 1
       ELSE /\ timers' = clearInterval(timers, autoplay)
            /\ autoplay' = NULL
            /\ UNCHANGED nextTimerId
    /\ UNCHANGED <<autoplaySpeed, spinTimer, discRotateTimer, discRotationAngle,
                   currentAngle, spinSpeed, discRotateSpeed, discBits, sectorOut,
                 basicsVars, codecVars>>

\* 'input' on the speed slider, then updateAutoplaySpeed (script.js:937-941, 254-259)
AutoplaySpeedInput ==
  \E s \in AutoplaySpeeds :
    /\ event' = [name |-> "autoplaySpeed", input |-> IntNum(s)]
    /\ autoplaySpeed' = s
    /\ IF autoplay # NULL
       THEN /\ nextTimerId <= MaxTimerId
            /\ timers' = setInterval(clearInterval(timers, autoplay), nextTimerId, "autoplay", s)
            /\ autoplay' = nextTimerId
            /\ nextTimerId' = nextTimerId + 1
       ELSE UNCHANGED <<timers, autoplay, nextTimerId>>
    /\ UNCHANGED <<spinTimer, discRotateTimer, discRotationAngle,
                   currentAngle, spinSpeed, discRotateSpeed, discBits, sectorOut,
                 basicsVars, codecVars>>

\* a tick of a live autoplay source: $('next').click() (script.js:257, 316)
AutoplayTick ==
  /\ \E t \in timers : t.chan = "autoplay"
  /\ LET r == setVal(IntNum(NextArg(val, n, wrap)), n, wrap, val)
     IN  /\ val' = r.val
         /\ renderLog' = IF r.rendered THEN << Rendered(n, r.val) >> ELSE << >>
         /\ event' = [name |-> "autoplayTick", input |-> IntNum(val)]
  /\ UNCHANGED <<n, wrap, bitsField, codecVars, animVars>>

\* discRotateStart without  if (discRotateTimer) clearInterval(discRotateTimer)
DiscRotateStart_noClear ==
  /\ nextTimerId <= MaxTimerId
  /\ event' = [name |-> "discRotateStart", input |-> IntNum(0)]
  /\ timers' = setInterval(timers, nextTimerId, "discRotate", FRAME_MS)
  /\ discRotateTimer' = nextTimerId
  /\ nextTimerId' = nextTimerId + 1
  /\ UNCHANGED <<autoplay, autoplaySpeed, spinTimer, discRotationAngle,
                 currentAngle, spinSpeed, discRotateSpeed, discBits, sectorOut,
                 basicsVars, codecVars>>

\* click on discRotateStart, run as the listener is when dispatched
\* (script.js:549-562)
DiscRotateStart ==
  /\ nextTimerId <= MaxTimerId
  /\ event' = [name |-> "discRotateStart", input |-> IntNum(0)]
  /\ timers' = setInterval(IF discRotateTimer # NULL THEN clearInterval(timers, discRotateTimer) ELSE timers,
                           nextTimerId, "discRotate", FRAME_MS)
  /\ discRotateTimer' = nextTimerId
  /\ nextTimerId' = nextTimerId + 1
  /\ UNCHANGED <<autoplay, autoplaySpeed, spinTimer, discRotationAngle,
                 currentAngle, spinSpeed, discRotateSpeed, discBits, sectorOut,
                 basicsVars, codecVars>>

\* click on discRotateStop (script.js:565-573)
DiscRotateStop ==
  /\ event' = [name |-> "discRotateStop", input |-> IntNum(0)]
  /\ IF discRotateTimer # NULL
     THEN /\ timers' = clearInterval(timers, discRotateTimer)
          /\ discRotateTimer' = NULL
     ELSE UNCHANGED <<timers, discRotateTimer>>
  /\ UNCHANGED <<autoplay, autoplaySpeed, spinTimer, discRotationAngle, currentAngle,
                 spinSpeed, discRotateSpeed, nextTimerId, discBits, sectorOut,
                 basicsVars, codecVars>>

\* 'input' on the disc-rotation speed slider (script.js:576-579)
DiscRotateSpeedInput ==
  \E s \in DiscRotateSpeeds :
    /\ event' = [name |-> "discRotateSpeed", input |-> IntNum(s)]
    /\ discRotateSpeed' = s
    /\ UNCHANGED <<autoplay, autoplaySpeed, spinTimer, discRotateTimer, discRotationAngle,
                   currentAngle, spinSpeed, timers, nextTimerId, discBits, sectorOut,
                 basicsVars, codecVars>>

\* a tick of a live disc-rotation source (script.js:553-558)
DiscRotateTick ==
  /\ \E t \in timers : t.chan = "discRotate"
  /\ LET speed     == discRotateSpeed
         angleStep == (speed * UnitsPerDegree) \div 10
     IN  discRotationAngle' = JsMod(discRotationAngle + angleStep, DEG360)
  /\ sectorOut' = renderDiscAll(currentAngle, discBits)
  /\ event' = [name |-> "discRotateTick", input |-> IntNum(discRotateSpeed)]
  /\ UNCHANGED <<autoplay, autoplaySpeed, spinTimer, discRotateTimer, currentAngle,
                 spinSpeed, discRotateSpeed, timers, nextTimerId, discBits,
                 basicsVars, codecVars>>

\* click on spinStart (script.js:582-595)
SpinStart ==
  /\ nextTimerId <= MaxTimerId
  /\ event' = [name |-> "spinStart", input |-> IntNum(0)]
  /\ timers' = setInterval(IF spinTimer # NULL THEN clearInterval(timers, spinTimer) ELSE timers,
                           nextTimerId, "spin", FRAME_MS)
  /\ spinTimer' = nextTimerId
  /\ nextTimerId' = nextTimerId + 1
  /\ UNCHANGED <<autoplay, autoplaySpeed, discRotateTimer, discRotationAngle,
                 currentAngle, spinSpeed, discRotateSpeed, discBits, sectorOut,
                 basicsVars, codecVars>>

\* spinStop clearing the other disc timer
SpinStop_wrongTimer ==
  /\ event' = [name |-> "spinStop", input |-> IntNum(0)]
  /\ IF discRotateTimer # NULL
     THEN /\ timers' = clearInterval(timers, discRotateTimer)
          /\ discRotateTimer' = NULL
     ELSE UNCHANGED <<timers, discRotateTimer>>
  /\ UNCHANGED <<autoplay, autoplaySpeed, spinTimer, discRotationAngle, currentAngle,
                 spinSpeed, discRotateSpeed, nextTimerId, discBits, sectorOut,
                 basicsVars, codecVars>>

\* click on spinStop (script.js:598-606)
SpinStop ==
  /\ event' = [name |-> "spinStop", input |-> IntNum(0)]
  /\ IF spinTimer # NULL
     THEN /\ timers' = clearInterval(timers, spinTimer)
          /\ spinTimer' = NULL
     ELSE UNCHANGED <<timers, spinTimer>>
  /\ UNCHANGED <<autoplay, autoplaySpeed, discRotateTimer, discRotationAngle, currentAngle,
                 spinSpeed, discRotateSpeed, nextTimerId, discBits, sectorOut,
                 basicsVars, codecVars>>

\* the spin speed listener recreating the timer, as updateAutoplaySpeed does
SpinSpeedInput_restart ==
  \E s \in SpinSpeeds :
    /\ event' = [name |-> "spinSpeed", input |-> IntNum(s)]
    /\ spinSpeed' = s
    /\ IF spinTimer # NULL
       THEN /\ nextTimerId <= MaxTimerId
            /\ timers' = setInterval(clearInterval(timers, spinTimer), nextTimerId, "spin", FRAME_MS)
            /\ spinTimer' = nextTimerId
            /\ nextTimerId' = nextTimerId + 1
       ELSE UNCHANGED <<timers, spinTimer, nextTimerId>>
    /\ UNCHANGED <<autoplay, autoplaySpeed, discRotateTimer, discRotationAngle,
                   currentAngle, discRotateSpeed, discBits, sectorOut,
                 basicsVars, codecVars>>

\* 'input' on the spin speed slider (script.js:609-612)
SpinSpeedInput ==
  \E s \in SpinSpeeds :
    /\ event' = [name |-> "spinSpeed", input |-> IntNum(s)]
    /\ spinSpeed' = s
    /\ UNCHANGED <<autoplay, autoplaySpeed, spinTimer, discRotateTimer, discRotationAngle,
                   currentAngle, discRotateSpeed, timers, nextTimerId, discBits, sectorOut,
                 basicsVars, codecVars>>

\* a tick of a live spin source (script.js:586-591)
SpinTick ==
  /\ \E t \in timers : t.chan = "spin"
  /\ LET speed     == spinSpeed
         angleStep == (speed * UnitsPerDegree) \div 25
     IN  currentAngle' = JsMod(currentAngle + angleStep, DEG360)
  /\ sectorOut' = renderDiscAll(currentAngle', discBits)
  /\ event' = [name |-> "spinTick", input |-> IntNum(spinSpeed)]
  /\ UNCHANGED <<autoplay, autoplaySpeed, spinTimer, discRotateTimer, discRotationAngle,
                 spinSpeed, discRotateSpeed, timers, nextTimerId, discBits,
                 basicsVars, codecVars>>

InitAnimSpec ==
  /\ InitCodecIdle
  /\ \E w \in BOOLEAN : InitBasics(w)
  /\ \E ss \in SpinSpeeds, ds \in DiscRotateSpeeds : InitAnim(ss, ds)
  /\ event = [name |-> "init", input |-> IntNum(0)]

NextAnim ==
  \/ AutoChange
  \/ AutoplaySpeedInput
  \/ AutoplayTick
  \/ DiscRotateStart
  \/ DiscRotateStop
  \/ DiscRotateSpeedInput
  \/ DiscRotateTick
  \/ SpinStart
  \/ SpinStop
  \/ SpinSpeedInput
  \/ SpinTick

SpecAnim == InitAnimSpec /\ [][NextAnim]_vars

-----------------------------------------------------------------------------
(* Encoder disc, script.js:481-540 and 582-606                             *)

\* a value typed into the discBits field: p is parseInt(value, 10), z is
\* value | 0
FieldInt(k) == [p |-> IntNum(k), z |-> k]
FieldEmpty == [p |-> NaN, z |-> 0]
\* "2e-1": parseInt reads 2, | 0 gives 0
FieldExp == [p |-> IntNum(2), z |-> 0]

\* the field values tried
MaxDiscBits == 5
DiscBitsSamples ==
  { FieldEmpty, FieldExp } \cup { FieldInt(k) : k \in (BITS_MIN - 2)..MaxDiscBits }

\* 'change' on the discBits field (script.js:504-522)
DiscBitsChange ==
  \E x \in DiscBitsSamples :
    /\ event' = [name |-> "discBits", input |-> x.p]
    /\ IF x.p.cls \in {"nan", "inf"}
       THEN /\ discBits' = DISC_BITS_DEFAULT
            /\ UNCHANGED sectorOut
       ELSE LET safeBits == Max(BITS_MIN, Min(BITS_MAX, x.p.v))
            IN  /\ discBits' = IF safeBits # x.p.v THEN safeBits ELSE x.z
                /\ sectorOut' = renderDiscAll(currentAngle, discBits')
    /\ UNCHANGED <<autoplay, autoplaySpeed, spinTimer, discRotateTimer, discRotationAngle,
                   currentAngle, spinSpeed, discRotateSpeed, timers, nextTimerId,
                   basicsVars, codecVars>>

\* the angle of one sector at the width read from the field
StepAngle(field) == DEG360 \div Shl1(DiscBitsAt(field))

\* click on prevSector (script.js:525-531)
PrevSector ==
  /\ currentAngle' = JsMod(currentAngle - StepAngle(discBits) + DEG360, DEG360)
  /\ sectorOut' = renderDiscAll(currentAngle', discBits)
  /\ event' = [name |-> "prevSector", input |-> IntNum(sectorOut)]
  /\ UNCHANGED <<autoplay, autoplaySpeed, spinTimer, discRotateTimer, discRotationAngle,
                 spinSpeed, discRotateSpeed, timers, nextTimerId, discBits,
                 basicsVars, codecVars>>

\* click on nextSector (script.js:534-540)
NextSector ==
  /\ currentAngle' = JsMod(currentAngle + StepAngle(discBits), DEG360)
  /\ sectorOut' = renderDiscAll(currentAngle', discBits)
  /\ event' = [name |-> "nextSector", input |-> IntNum(sectorOut)]
  /\ UNCHANGED <<autoplay, autoplaySpeed, spinTimer, discRotateTimer, discRotationAngle,
                 spinSpeed, discRotateSpeed, timers, nextTimerId, discBits,
                 basicsVars, codecVars>>

\* the spin speed the disc runs start with: 10 degrees a tick
SlowSpin == 25 * 10

InitDisc ==
  /\ InitCodecIdle
  /\ InitBasics(FALSE)
  /\ InitAnim(SlowSpin, 0)
  /\ event = [name |-> "init", input |-> IntNum(0)]

NextDisc ==
  \/ DiscBitsChange
  \/ PrevSector
  \/ NextSector
  \/ SpinStart
  \/ SpinStop
  \/ SpinSpeedInput
  \/ SpinTick

SpecDisc == InitDisc /\ [][NextDisc]_vars

-----------------------------------------------------------------------------
(* Convert tab, script.js:624-642                                          *)

\* an argument of convert: a string (a sequence of characters) or a value
\* that is not a string
StrVal(chars) == [kind |-> "string", s |-> chars]
NonString == [kind |-> "other", s |-> << >>]
NoOrigin == [kind |-> "none", s |-> << >>]

\* the value convert returns when it has no result: the one-character string
\* made of an em dash
NO_RESULT == << "em-dash" >>
MAX_INPUT_LEN == 32

\* input.replace(/[^01]/g, '')
Strip(chars) == SelectSeq(chars, LAMBDA c : c \in {"0", "1"})

\* the value of at most 16 binary digits
RECURSIVE BinVal(_)
BinVal(d) ==
  IF d = << >> THEN 0
  ELSE 2 * BinVal(SubSeq(d, 1, Len(d) - 1)) + (IF d[Len(d)] = "1" THEN 1 ELSE 0)

\* parseInt(s, 2) of 1 to 32 binary digits, in the wide form
ParseBin(d) ==
  IF Len(d) <= 16 THEN [hi |-> 0, lo |-> BinVal(d)]
  ELSE [hi |-> BinVal(SubSeq(d, 1, Len(d) - 16)),
        lo |-> BinVal(SubSeq(d, Len(d) - 15, Len(d)))]

\* how convert leaves its checks: "none" (returns the sentinel) or "go"
convertChecks_reject(x) ==
  IF x.kind # "string" THEN "none"
  ELSE IF x.s = << >> \/ Strip(x.s) # x.s THEN "none"
  ELSE IF Len(x.s) > MAX_INPUT_LEN THEN "none"
  ELSE "go"

convertChecks(x) ==
  IF x.kind # "string" THEN "none"
  ELSE IF Strip(x.s) = << >> THEN "none"
  ELSE IF Len(Strip(x.s)) > MAX_INPUT_LEN THEN "none"
  ELSE "go"

\* convert(x, toGray) from its entry to its return, or to the entry of
\* grayToBin's loop (script.js:624-637)
ConvertEnter(x, toGray) ==
  IF convertChecks(x) = "none"
  THEN /\ fn' = "convert"
       /\ ret' = NO_RESULT
       /\ pc' = "done"
       /\ UNCHANGED <<gtb_g, gtb_b>>
  ELSE LET d   == Strip(x.s)
           num == ParseBin(d)
       IN  IF toGray
           THEN /\ fn' = "convert"
                /\ ret' = pad(binToGray(num), Len(d))
                /\ pc' = "done"
                /\ UNCHANGED <<gtb_g, gtb_b>>
           ELSE /\ fn' = "convert:grayToBin"
                /\ gtb_g' = num
                /\ gtb_b' = 0
                /\ pc' = "loop"
                /\ UNCHANGED ret

\* convert(arg.input, arg.toGray)
ConvertCall ==
  /\ pc = "ready"
  /\ ConvertEnter(arg.input, arg.toGray)
  /\ UNCHANGED <<arg, basicsVars, animVars, event>>

\* convert(r, false) of the string r that convert(arg.input, true) returned
ConvertBack ==
  /\ pc = "done"
  /\ fn = "convert"
  /\ arg.toGray
  /\ arg.orig = NoOrigin
  /\ arg' = [input |-> StrVal(ret), toGray |-> FALSE, orig |-> arg.input]
  /\ ConvertEnter(StrVal(ret), FALSE)
  /\ UNCHANGED <<basicsVars, animVars, event>>

\* the loop exit of grayToBin, its  return b;  and convert's
\* return pad(result, s.length)  (script.js:67, 70, 636-637)
ConvertReturn ==
  /\ pc = "loop"
  /\ fn = "convert:grayToBin"
  /\ gtb_g = Num(0)
  /\ fn' = "convert"
  /\ ret' = pad(gtb_b, Len(Strip(arg.input.s)))
  /\ pc' = "done"
  /\ UNCHANGED <<arg, gtb_g, gtb_b, basicsVars, animVars, event>>

\* the strings tried: every string of up to MaxStrLen characters over
\* '0', '1', 'x', and patterns of 31, 32 and 33 binary digits, bare and with
\* other characters among them
MaxStrLen == 3
Alphabet == {"0", "1", "x"}
ShortStrings == UNION { [1..k -> Alphabet] : k \in 0..MaxStrLen }

Rep(c, k) == [i \in 1..k |-> c]
LongLens == {MAX_INPUT_LEN - 1, MAX_INPUT_LEN, MAX_INPUT_LEN + 1}
LongDigits ==
  UNION { { Rep("1", k), Rep("0", k),
            <<"1">> \o Rep("0", k - 1),
            <<"0">> \o Rep("1", k - 1),
            <<"1", "0">> \o Rep("1", k - 2),
            [i \in 1..k |-> IF i % 2 = 1 THEN "1" ELSE "0"] } : k \in LongLens }
LongStrings ==
  LongDigits
  \cup { <<"x">> \o d : d \in LongDigits }
  \cup { SubSeq(d, 1, 4) \o <<" ">> \o SubSeq(d, 5, Len(d)) : d \in LongDigits }

ConvertInputs ==
  { [input |-> x, toGray |-> g, orig |-> NoOrigin] :
      x \in { NonString } \cup { StrVal(c) : c \in ShortStrings \cup LongStrings },
      g \in BOOLEAN }

InitConvert ==
  /\ fn = "none"
  /\ arg \in ConvertInputs
  /\ ret = << >>
  /\ pc = "ready"
  /\ gtb_g = Num(0)
  /\ gtb_b = 0
  /\ InitBasics(FALSE)
  /\ InitAnim(0, 0)
  /\ event = [name |-> "init", input |-> IntNum(0)]

NextConvert ==
  \/ ConvertCall
  \/ ConvertBack
  \/ grayToBinStep
  \/ ConvertReturn

SpecConvert == InitConvert /\ [][NextConvert]_vars

\* the loop of grayToBin runs on: each iteration is followed by the loop test
\* and the next iteration or the return, with nothing to wait for
SpecConvertFair ==
  /\ InitConvert
  /\ [][NextConvert]_vars
  /\ WF_vars(grayToBinStep)
  /\ WF_vars(ConvertReturn)

-----------------------------------------------------------------------------
(* Properties of the codec and of the angle/sector mapper                  *)

\* the inputs of the claims about widths 1..12: a width and a value below 2^width
InWidth == arg.n \in BITS_MIN..BITS_MAX /\ arg.b.hi = 0 /\ arg.b.lo < 2 ^ arg.n

\* C1: for every width n in 1..12 and every v in 0..2^n - 1,
\* grayToBin(binToGray(v)) returns v.
C1_RoundTrip ==
  (fn = "roundTrip" /\ pc = "done" /\ InWidth) => ret = arg.b.lo

C1_Witness ==
  /\ fn = "roundTrip" /\ pc = "done"
  /\ arg.n = BITS_MAX /\ arg.b = Num(2 ^ BITS_MAX - 1)
  /\ ret = 2 ^ BITS_MAX - 1

\* C2: for every width n in 1..12 and every index i below 2^n, the row of the
\* comparison table for i shows Hamming distance 1 between the Gray codes of
\* i and of its cyclic predecessor, the row for i = 0 being the wrap edge
\* from 2^n - 1 back to 0; and the header shows Gray distance 1 from i to
\* (i + 1) mod 2^n.
C2_AdjacentDistanceOne ==
  /\ (fn = "renderBasicsRow" /\ pc = "done") => ret.hd = 1
  /\ (fn = "renderBasicsHead" /\ pc = "done") => ret.grayHamming = 1

C2_Witness ==
  /\ fn = "renderBasicsRow" /\ pc = "done"
  /\ arg.n = BITS_MAX /\ arg.b = Num(0)
  /\ ret.gray = [i \in 1..BITS_MAX |-> "0"]
  /\ ret.hd = 1

\* b XOR floor(b / 2) of a number below 2^16, as a natural number
RECURSIVE NatXor(_, _)
NatXor(a, b) ==
  IF a = 0 THEN b ELSE IF b = 0 THEN a
  ELSE 2 * NatXor(a \div 2, b \div 2) + (((a % 2) + (b % 2)) % 2)

\* b XOR floor(b / 2) of a number below 2^32, in the wide form
UnsignedGray(w) ==
  [hi |-> NatXor(w.hi, w.hi \div 2),
   lo |-> NatXor(w.lo, (w.hi % 2) * 32768 + (w.lo \div 2))]

\* C3: for every b in 0..2^32 - 1, binToGray(b) is a non-negative integer
\* equal to b XOR floor(b / 2).
C3_NonNegativeGray ==
  (fn = "binToGray" /\ pc = "done" /\ arg.b.hi \in 0..65535)
    => (ret >= 0 /\ Num(ret) = UnsignedGray(arg.b))

\* C4: for every k in 1..MaxRBC the reflected construction RBC(k) is the
\* sequence pad(binToGray(i), k), i = 0 .. 2^k - 1, in the same order.
C4_ReflectedEqualsClosedForm ==
  (fn = "RBC" /\ pc = "done")
    => ret = [i \in 1..(2 ^ arg.n) |-> pad(binToGray(Num(i - 1)), arg.n)]

C4_Witness ==
  /\ fn = "RBC" /\ pc = "done"
  /\ arg.n = MaxRBC
  /\ Len(ret) = 2 ^ MaxRBC
  /\ ret[2 ^ MaxRBC] = <<"1">> \o [i \in 1..(MaxRBC - 1) |-> "0"]

\* floor(a' / (360 / 2^bits)) mod 2^bits, a' the non-negative remainder of a
\* modulo 360
NormalizedSector(a, bits) ==
  ((a % DEG360) \div (DEG360 \div (2 ^ bits))) % (2 ^ bits)

\* C10 as stated: for every bits in 1..12 and every angle a, negative angles
\* included, sectorFromAngle(a, bits) is the sector of a reduced to [0, 360),
\* lies in 0..2^bits - 1, is the same one full turn later, and is 0 at a = 0.
C10_Original ==
  /\ (fn = "sectorFromAngle" /\ pc = "done")
       => /\ ret = NormalizedSector(arg.a, arg.n)
          /\ ret \in 0..(2 ^ arg.n - 1)
          /\ (arg.a = 0 => ret = 0)
  /\ (fn = "sectorFromAngle+360" /\ pc = "done") => ret.first = ret.second

\* C10 amended: the same for every angle a >= 0; for a < 0 the result is the
\* sector of the reduced angle minus 2^bits, or 0 when that sector is 0.
C10_NonNegativeAngles ==
  /\ (fn = "sectorFromAngle" /\ pc = "done" /\ arg.a >= 0)
       => /\ ret = NormalizedSector(arg.a, arg.n)
          /\ ret \in 0..(2 ^ arg.n - 1)
          /\ (arg.a = 0 => ret = 0)
  /\ (fn = "sectorFromAngle+360" /\ pc = "done" /\ arg.a >= 0)
       => ret.first = ret.second
  /\ (fn = "sectorFromAngle" /\ pc = "done" /\ arg.a < 0)
       => ret = IF NormalizedSector(arg.a, arg.n) = 0 THEN 0
                ELSE NormalizedSector(arg.a, arg.n) - 2 ^ arg.n

C10_Witness ==
  /\ fn = "sectorFromAngle+360" /\ pc = "done"
  /\ arg.n = BITS_MAX
  /\ arg.a = 2 * DEG360 - 1
  /\ ret.first = 2 ^ BITS_MAX - 1
  /\ ret.second = 2 ^ BITS_MAX - 1

-----------------------------------------------------------------------------
(* Properties of the Basics tab                                            *)

\* C5: a prev or next click from the value v (recorded in event.input) at
\* width n leaves val = (v -/+ 1) mod 2^n, taken non-negative, when the wrap
\* flag is set, and val = max(0, min(2^n - 1, v -/+ 1)) when it is not.
C5_BoundaryPolicy ==
  /\ event.name = "prev"
       => val = IF wrap THEN (event.input.v - 1) % (2 ^ n)
                        ELSE Max(0, Min(2 ^ n - 1, event.input.v - 1))
  /\ event.name = "next"
       => val = IF wrap THEN (event.input.v + 1) % (2 ^ n)
                        ELSE Max(0, Min(2 ^ n - 1, event.input.v + 1))

\* prev from 0 in wrap mode at n = 3 gives 7
C5_Witness ==
  /\ event.name = "prev" /\ event.input.v = 0
  /\ wrap /\ n = 3 /\ val = 7

\* C6: every renderBasics call of every handler reads 1 <= n <= 12 and
\* 0 <= val <= 2^n - 1, and so does the state each handler leaves.
C6_RenderInRange ==
  /\ n \in BITS_MIN..BITS_MAX
  /\ val \in 0..(2 ^ n - 1)
  /\ \A i \in DOMAIN renderLog :
       /\ renderLog[i].n \in BITS_MIN..BITS_MAX
       /\ renderLog[i].val \in 0..(2 ^ renderLog[i].n - 1)

\* an out-of-range width 0 arrives while val exceeds the new maximum: the
\* handler clamps the width to 1 and both of its renders read val = 1
C6_Witness ==
  /\ event.name = "bits" /\ event.input.cls = "int" /\ event.input.v = 0
  /\ n = 1 /\ val = 1
  /\ renderLog = << Rendered(1, 1), Rendered(1, 1) >>

-----------------------------------------------------------------------------
(* Properties of the animation channels                                    *)

Channels == {"autoplay", "spin", "discRotate"}

HandleOf(c) ==
  IF c = "autoplay" THEN autoplay
  ELSE IF c = "spin" THEN spinTimer
  ELSE discRotateTimer

Live(c) == { t \in timers : t.chan = c }

\* C7: each channel has at most one live tick source, and its handle is the
\* null sentinel exactly when it has none.
C7_OneSourcePerChannel ==
  \A c \in Channels :
    /\ Cardinality(Live(c)) <= 1
    /\ (HandleOf(c) = NULL) <=> (Live(c) = {})

\* spinStart has run with the spin channel already running: the source made
\* by the earlier start is gone and only the newest is live
C7_Witness ==
  /\ event.name = "spinStart"
  /\ autoplay = NULL /\ discRotateTimer = NULL
  /\ nextTimerId = 3
  /\ spinTimer = 2
  /\ timers = { [id |-> 2, chan |-> "spin", period |-> FRAME_MS] }

\* the angle a spin tick reaches from angle a at speed s, and likewise for a
\* disc-rotation tick
SpinTarget(a, s) == (a + (s * UnitsPerDegree) \div 25) % DEG360
DiscRotateTarget(a, s) == (a + (s * UnitsPerDegree) \div 10) % DEG360

\* the two disc channels: a speed change while running keeps the handle and
\* the live sources (so the period too), and a tick steps by the speed set
\* last
DiscChannelsKeepTimer ==
  /\ (event'.name = "spinSpeed" /\ spinTimer # NULL)
       => (spinTimer' = spinTimer /\ timers' = timers /\ spinSpeed' = event'.input.v)
  /\ (event'.name = "discRotateSpeed" /\ discRotateTimer # NULL)
       => (discRotateTimer' = discRotateTimer /\ timers' = timers
           /\ discRotateSpeed' = event'.input.v)
  /\ event'.name = "spinTick"
       => currentAngle' = SpinTarget(currentAngle, spinSpeed)
  /\ event'.name = "discRotateTick"
       => discRotationAngle' = DiscRotateTarget(discRotationAngle, discRotateSpeed)

\* C8 as stated: on each of the three channels a speed change while running
\* neither cancels nor recreates the tick source and leaves its period as it was.
C8_Original ==
  [][ /\ DiscChannelsKeepTimer
      /\ (event'.name = "autoplaySpeed" /\ autoplay # NULL)
           => (autoplay' = autoplay /\ timers' = timers) ]_vars

\* C8 amended: that holds of the disc free-spin and disc-bit rotation
\* channels; a speed change on the value autoplay channel while it is running
\* cancels its tick source and creates exactly one new one whose period is the
\* new speed, the per-tick effect (a next click) staying as it was.
C8_SpeedChange ==
  [][ /\ DiscChannelsKeepTimer
      /\ (event'.name = "autoplaySpeed" /\ autoplay # NULL)
           => /\ autoplay' \notin {NULL, autoplay}
              /\ timers' = { t \in timers : t.chan # "autoplay" }
                           \cup { [id |-> autoplay', chan |-> "autoplay",
                                   period |-> event'.input.v] }
      /\ (event'.name = "autoplaySpeed" /\ autoplay = NULL)
           => (autoplay' = NULL /\ timers' = timers)
      /\ event'.name = "autoplayTick"
           => val' = IF wrap THEN (val + 1) % (2 ^ n) ELSE Min(2 ^ n - 1, val + 1) ]_vars

\* the autoplay speed was changed from 600 to 300 while autoplay and the spin
\* channel were running: autoplay has a new source with period 300, the spin
\* source is the one spinStart made
C8_Witness ==
  /\ event.name = "autoplaySpeed" /\ event.input.v = 300
  /\ autoplay = 3 /\ spinTimer = 2
  /\ timers = { [id |-> 2, chan |-> "spin", period |-> FRAME_MS],
                [id |-> 3, chan |-> "autoplay", period |-> 300] }

AutoplayEvents == {"autoChange", "autoplaySpeed", "autoplayTick"}
SpinEvents == {"spinStart", "spinStop", "spinSpeed", "spinTick"}
DiscRotateEvents == {"discRotateStart", "discRotateStop", "discRotateSpeed", "discRotateTick"}

\* C9: a start, stop, speed change or tick of one channel leaves the handles
\* and the live sources of the other two as they were, and a tick changes only
\* its own variable: val for autoplay, currentAngle for spin, discRotationAngle
\* for disc rotation.
C9_ChannelsIndependent ==
  [][ /\ event'.name \in AutoplayEvents
           => (UNCHANGED <<spinTimer, discRotateTimer>>
               /\ Live("spin")' = Live("spin") /\ Live("discRotate")' = Live("discRotate"))
      /\ event'.name \in SpinEvents
           => (UNCHANGED <<autoplay, discRotateTimer>>
               /\ Live("autoplay")' = Live("autoplay") /\ Live("discRotate")' = Live("discRotate"))
      /\ event'.name \in DiscRotateEvents
           => (UNCHANGED <<autoplay, spinTimer>>
               /\ Live("autoplay")' = Live("autoplay") /\ Live("spin")' = Live("spin"))
      /\ event'.name = "autoplayTick"
           => UNCHANGED <<n, wrap, currentAngle, discRotationAngle, animVars>>
      /\ event'.name = "spinTick"
           => UNCHANGED <<n, val, wrap, discRotationAngle, timers,
                          autoplay, spinTimer, discRotateTimer,
                          autoplaySpeed, spinSpeed, discRotateSpeed>>
      /\ event'.name = "discRotateTick"
           => UNCHANGED <<n, val, wrap, currentAngle, timers,
                          autoplay, spinTimer, discRotateTimer,
                          autoplaySpeed, spinSpeed, discRotateSpeed>> ]_vars

\* a spin tick with all three channels running and all three variables moved
C9_Witness ==
  /\ event.name = "spinTick"
  /\ autoplay # NULL /\ spinTimer # NULL /\ discRotateTimer # NULL
  /\ Cardinality(timers) = 3
  /\ val = 1
  /\ currentAngle = DEG360 \div 2
  /\ discRotationAngle = DEG360 \div 2

-----------------------------------------------------------------------------
(* Properties of convert, under SpecConvert                                *)

ConvertDone == fn = "convert" /\ pc = "done"
OnlyBinary(chars) == \A i \in 1..Len(chars) : chars[i] \in {"0", "1"}

\* the inputs the claim has rejected: not a string, empty, longer than 32
\* characters, or holding a character other than '0' and '1'
RejectedAsGiven(x) ==
  \/ x.kind # "string"
  \/ x.s = << >>
  \/ Len(x.s) > MAX_INPUT_LEN
  \/ ~OnlyBinary(x.s)

\* the inputs rejected once every character other than '0' and '1' has been
\* removed: not a string, or nothing left, or more than 32 digits left
RejectedStripped(x) ==
  \/ x.kind # "string"
  \/ Strip(x.s) = << >>
  \/ Len(Strip(x.s)) > MAX_INPUT_LEN

ValidDigits(x) ==
  /\ x.kind = "string"
  /\ Len(x.s) \in 1..MAX_INPUT_LEN
  /\ OnlyBinary(x.s)

\* the Gray code of a digit string, digit by digit: the first digit is kept,
\* every other digit is the exclusive or of the digit and the one before it
GrayString(d) ==
  [i \in 1..Len(d) |-> IF i = 1 THEN d[1]
                       ELSE IF d[i - 1] = d[i] THEN "0" ELSE "1"]

\* the binary value of a Gray digit string, digit by digit: digit i is the
\* exclusive or of the first i Gray digits
OnesUpTo(d, i) == Cardinality({ j \in 1..i : d[j] = "1" })
BinString(d) ==
  [i \in 1..Len(d) |-> IF OnesUpTo(d, i) % 2 = 1 THEN "1" ELSE "0"]

\* C12: for every string s of 1 to 32 binary digits, convert(s, true) is the
\* |s|-digit zero-padded Gray code of s, convert(s, false) is the |s|-digit
\* zero-padded binary value of the Gray code s, and
\* convert(convert(s, true), false) is s again.
C12_ConvertRoundTrip ==
  /\ ConvertDone /\ arg.orig = NoOrigin /\ ValidDigits(arg.input) /\ arg.toGray
       => ret = GrayString(arg.input.s)
  /\ ConvertDone /\ arg.orig = NoOrigin /\ ValidDigits(arg.input) /\ ~arg.toGray
       => ret = BinString(arg.input.s)
  /\ ConvertDone /\ arg.orig # NoOrigin /\ ValidDigits(arg.orig)
       => ret = arg.orig.s

\* C14: the shift loop of grayToBin reaches g = 0 after finitely many
\* iterations for every g in [0, 2^32 - 1], so every convert(s, false) that
\* has entered the loop, also on 32 digits the first of which is '1',
\* returns a value.
C14_GrayToBinTerminates == (fn = "convert:grayToBin") ~> ConvertDone

-----------------------------------------------------------------------------
(* Rejection of invalid input, under SpecBasics                            *)

\* a value that is not a number or a string, a non-numeric string, NaN, or
\* an infinite value
InvalidValues == { Other, StrNaN, NaN, Inf }

\* C13: when setVal or the bit-width change handler receives an invalid
\* numeric input, the input is rejected: n and val keep their values and
\* nothing is rendered.
C13_InvalidInputRejected ==
  [][ (event'.name \in {"setVal", "bits"} /\ event'.input \in InvalidValues)
        => (n' = n /\ val' = val /\ renderLog' = << >>) ]_vars

\* a non-numeric string has been handed to setVal while width and value were
\* not the initial ones
C13_Witness ==
  /\ event.name = "setVal"
  /\ event.input = StrNaN
  /\ n # 4
  /\ val > 15
  /\ renderLog = << >>

-----------------------------------------------------------------------------
(* Properties of the encoder disc, under SpecDisc                          *)

\* C15: after any sequence of prevSector/nextSector clicks, spin ticks with
\* a non-negative speed and disc bit-width changes, currentAngle is in
\* [0, 360) and the sector on display is in [0, 2^bits - 1]; a nextSector
\* click moves the sector on display forward by exactly 1 modulo 2^bits and
\* a prevSector click moves it back by exactly 1 modulo 2^bits.
C15_SectorSteps ==
  LET sectors == Shl1(DiscBitsAt(discBits))
  IN  /\ currentAngle \in 0..(DEG360 - 1)
      /\ sectorOut \in 0..(sectors - 1)
      /\ event.name = "nextSector" => sectorOut = (event.input.v + 1) % sectors
      /\ event.name = "prevSector" => sectorOut = (event.input.v - 1) % sectors

====
